---- MODULE Spec2Model ----
(***************************************************************************)
(* A model of src/src/add-to-project.ts: one run of addToProject (the      *)
(* label gate, the project URL resolver, the project-id query, the add     *)
(* mutation and the optional "Status" override), and direct calls of the   *)
(* exported mustGetOwnerTypeQuery.                                         *)
(*                                                                         *)
(* Strings are sequences of one-character strings, so that split, trim,    *)
(* toLowerCase, parseInt and the regular expression urlParse are computed  *)
(* character by character.  The JavaScript value undefined is Undefined.   *)
(***************************************************************************)
EXTENDS Integers, Sequences, FiniteSets, TLC

\* --------------------------------------------------------------- bounds
\* Most comma-separated entries of the `labeled` input (label-gate family).
MaxLabeled == 2
\* Most labels on the triggering issue (label-gate family).
MaxIssueLabels == 2
\* Most options of the "Status" field in a field-id response.
MaxOptions == 2

\* -------------------------------------------------------------- strings
Undefined == <<"undefined">>

UpperChars == <<"A","B","C","D","E","F","G","H","I","J","K","L","M",
                "N","O","P","Q","R","S","T","U","V","W","X","Y","Z">>
LowerChars == <<"a","b","c","d","e","f","g","h","i","j","k","l","m",
                "n","o","p","q","r","s","t","u","v","w","x","y","z">>
DigitChars == <<"0","1","2","3","4","5","6","7","8","9">>
WhiteSpace == {" ", "\t", "\n"}

Range(s) == {s[i] : i \in 1..Len(s)}

\* String.prototype.toLowerCase / toLocaleLowerCase, one character
lowerChar(c) ==
  IF \E i \in 1..Len(UpperChars) : UpperChars[i] = c
  THEN LowerChars[CHOOSE i \in 1..Len(UpperChars) : UpperChars[i] = c]
  ELSE c

toLowerCase(s) == [i \in 1..Len(s) |-> lowerChar(s[i])]

\* String.prototype.trim
trim(s) ==
  LET keep == {i \in 1..Len(s) : s[i] \notin WhiteSpace}
  IN IF keep = {} THEN <<>>
     ELSE LET lo == CHOOSE i \in keep : \A j \in keep : i <= j
              hi == CHOOSE i \in keep : \A j \in keep : j <= i
          IN SubSeq(s, lo, hi)

\* String.prototype.split(sep) for a one-character separator: "" gives [""]
RECURSIVE split(_, _)
split(s, sep) ==
  IF \E i \in 1..Len(s) : s[i] = sep
  THEN LET k == CHOOSE i \in 1..Len(s) : s[i] = sep /\ \A j \in 1..(i-1) : s[j] # sep
       IN <<SubSeq(s, 1, k-1)>> \o split(SubSeq(s, k+1, Len(s)), sep)
  ELSE <<s>>

\* Array.prototype.map and Array.prototype.filter as the label code uses them
RECURSIVE filterNonEmpty(_)
filterNonEmpty(xs) ==
  IF xs = <<>> THEN <<>>
  ELSE (IF Len(Head(xs)) > 0 THEN <<Head(xs)>> ELSE <<>>) \o filterNonEmpty(Tail(xs))

\* Array.prototype.join(sep) for a list of strings
RECURSIVE join(_, _)
join(xs, sep) ==
  IF xs = <<>> THEN <<>>
  ELSE IF Len(xs) = 1 THEN xs[1]
  ELSE xs[1] \o sep \o join(Tail(xs), sep)

\* digit value of a character of \d
digitValue(c) == (CHOOSE i \in 1..Len(DigitChars) : DigitChars[i] = c) - 1

\* parseInt(s, 10) on a non-empty run of decimal digits
RECURSIVE parseInt(_)
parseInt(s) ==
  IF Len(s) = 1 THEN digitValue(s[1])
  ELSE 10 * parseInt(SubSeq(s, 1, Len(s) - 1)) + digitValue(s[Len(s)])

\* core.getInput(name): the value of the input, whitespace-trimmed
getInput(raw) == trim(raw)

\* core.getInput(name, {required: true}) throws when the input is not supplied
inputMissing(raw) == raw = <<>>

\* ------------------------------------------------------------ label gate
\* labeled: split(','), map(trim().toLowerCase()), filter(length > 0)
labeledOf(raw) ==
  LET parts == split(getInput(raw), ",")
  IN filterNonEmpty([i \in 1..Len(parts) |-> toLowerCase(trim(parts[i]))])

\* labelOperator: getInput('label-operator').trim().toLocaleLowerCase()
labelOperatorOf(raw) == toLowerCase(trim(getInput(raw)))

\* issueLabelsOf with the toLowerCase of line 90 left out
issueLabelsOf_asGiven(iss) ==
  IF iss = <<>> THEN <<>> ELSE iss[1].labels

\* issueLabels: (issue?.labels ?? []).map(l => l.name.toLowerCase());
\* an optional object is <<>> (undefined) or <<object>>
issueLabelsOf(iss) ==
  IF iss = <<>> THEN <<>>
  ELSE [i \in 1..Len(iss[1].labels) |-> toLowerCase(iss[1].labels[i])]

includes(xs, x) == \E i \in 1..Len(xs) : xs[i] = x

OpAnd == <<"a","n","d">>
OpNot == <<"n","o","t">>

\* labelGateSkips with `some` for the `every` of line 97
labelGateSkips_some(op, cfg, have) ==
  IF op = OpAnd
  THEN ~(\E i \in 1..Len(cfg) : includes(have, cfg[i]))
  ELSE IF op = OpNot
  THEN Len(cfg) > 0 /\ (\E i \in 1..Len(have) : includes(cfg, have[i]))
  ELSE Len(cfg) > 0 /\ ~(\E i \in 1..Len(have) : includes(cfg, have[i]))

\* labelGateSkips whose `not` branch skips only when every configured label
\* is on the issue
labelGateSkips_notAll(op, cfg, have) ==
  IF op = OpAnd
  THEN ~(\A i \in 1..Len(cfg) : includes(have, cfg[i]))
  ELSE IF op = OpNot
  THEN Len(cfg) > 0 /\ (\A i \in 1..Len(cfg) : includes(have, cfg[i]))
  ELSE Len(cfg) > 0 /\ ~(\E i \in 1..Len(have) : includes(cfg, have[i]))

\* TRUE when the run returns early at the label gate
labelGateSkips(op, cfg, have) ==
  IF op = OpAnd
  THEN ~(\A i \in 1..Len(cfg) : includes(have, cfg[i]))
  ELSE IF op = OpNot
  THEN Len(cfg) > 0 /\ (\E i \in 1..Len(have) : includes(cfg, have[i]))
  ELSE Len(cfg) > 0 /\ ~(\E i \in 1..Len(have) : includes(cfg, have[i]))

\* ---------------------------------------------------- project URL resolver
S_https    == <<"h","t","t","p","s",":","/","/">>
S_host     == <<"g","i","t","h","u","b",".","c","o","m","/">>
S_orgs     == <<"o","r","g","s">>
S_users    == <<"u","s","e","r","s">>
S_projects == <<"/","p","r","o","j","e","c","t","s","/">>
S_slash    == <<"/">>

\* s has the literal lit at position i
litAt(s, i, lit) ==
  /\ i + Len(lit) - 1 <= Len(s)
  /\ \A k \in 1..Len(lit) : s[i + k - 1] = lit[k]

\* the end of the longest run of characters of `class` that starts at i
\* (i - 1 when the run is empty): a greedy quantifier over a character class
runEnd(s, i, class) ==
  LET stops == {k \in i..Len(s) : s[k] \notin class}
  IN IF stops = {} THEN Len(s)
     ELSE (CHOOSE k \in stops : \A j \in stops : k <= j) - 1

NoMatch == [matched |-> FALSE, ownerType |-> Undefined,
            ownerName |-> Undefined, projectNumber |-> Undefined]

\* \/(?<ownerName>[^/]+)\/projects\/(?<projectNumber>\d+) from position i on
matchOwnerAndNumber(s, i, ownerType) ==
  IF ~litAt(s, i, S_slash) THEN NoMatch
  ELSE LET e == runEnd(s, i + 1, Range(s) \ {"/"})
       IN IF e < i + 1 \/ ~litAt(s, e + 1, S_projects) THEN NoMatch
          ELSE LET d == e + 1 + Len(S_projects)
                   f == runEnd(s, d, Range(DigitChars))
               IN IF f < d THEN NoMatch
                  ELSE [matched |-> TRUE, ownerType |-> ownerType,
                        ownerName |-> SubSeq(s, i + 1, e),
                        projectNumber |-> SubSeq(s, d, f)]

\* (?<ownerType>orgs|users)...: the alternatives in order
matchOwnerType(s, i) ==
  LET a == IF litAt(s, i, S_orgs)
           THEN matchOwnerAndNumber(s, i + Len(S_orgs), S_orgs) ELSE NoMatch
      b == IF litAt(s, i, S_users)
           THEN matchOwnerAndNumber(s, i + Len(S_users), S_users) ELSE NoMatch
  IN IF a.matched THEN a ELSE b

\* github\.com\/... from position i on
matchHost(s, i) ==
  IF litAt(s, i, S_host) THEN matchOwnerType(s, i + Len(S_host)) ELSE NoMatch

\* projectUrl.match(urlParse): ^(?:https:\/\/)? then the rest, the optional
\* group taken first and given up when the rest does not match
urlParse(s) ==
  LET a == IF litAt(s, 1, S_https) THEN matchHost(s, 1 + Len(S_https)) ELSE NoMatch
  IN IF a.matched THEN a ELSE matchHost(s, 1)

\* mustGetOwnerTypeQuery: the query root, or Undefined where the code throws
S_organization == <<"o","r","g","a","n","i","z","a","t","i","o","n">>
S_user         == <<"u","s","e","r">>

\* mustGetOwnerTypeQuery with `users` sent to the organization root
mustGetOwnerTypeQuery_oneRoot(ownerType) ==
  IF ownerType = S_orgs THEN S_organization
  ELSE IF ownerType = S_users THEN S_organization
  ELSE Undefined

mustGetOwnerTypeQuery(ownerType) ==
  IF ownerType = S_orgs THEN S_organization
  ELSE IF ownerType = S_users THEN S_user
  ELSE Undefined

\* ------------------------------------------------- item attachment decision
\* the owner comparison made case-insensitive
ownerMatches_anyCase(issueOwnerName, projectOwnerName) ==
  toLowerCase(issueOwnerName) = toLowerCase(projectOwnerName)

\* issueOwnerName === projectOwnerName
ownerMatches(issueOwnerName, projectOwnerName) == issueOwnerName = projectOwnerName

\* An optional object is <<>> (undefined) or <<object>>.
\* idResp[ownerTypeQuery]
rootOf(resp, ownerTypeQuery) ==
  IF ownerTypeQuery = S_organization THEN resp.organization ELSE resp.user

\* idResp[ownerTypeQuery]?.projectV2.id
projectIdOf(resp, ownerTypeQuery) ==
  LET root == rootOf(resp, ownerTypeQuery)
  IN IF root = <<>> THEN Undefined ELSE root[1].projectV2.id

\* the variables of the add mutation the owner comparison selects
addItemCall(sameOwner, projectId, contentId, htmlUrl) ==
  IF sameOwner
  THEN [op |-> "addProjectV2ItemById",
        vars |-> [projectId |-> projectId, contentId |-> contentId]]
  ELSE [op |-> "addProjectV2DraftIssue",
        vars |-> [projectId |-> projectId, title |-> htmlUrl]]

\* ---------------------------------------------------- status field override
\* statusFieldIdResp[projectOwnerTypeQuery]?.projectV2.field.id
statusFieldIdOf(resp, ownerTypeQuery) ==
  LET root == rootOf(resp, ownerTypeQuery)
  IN IF root = <<>> THEN Undefined ELSE root[1].projectV2.field.id

\* (statusFieldIdResp[projectOwnerTypeQuery]?.projectV2.field.options || [])
optionsOf(resp, ownerTypeQuery) ==
  LET root == rootOf(resp, ownerTypeQuery)
  IN IF root = <<>> THEN <<>>
     ELSE IF root[1].projectV2.field.options = <<>> THEN <<>>
     ELSE root[1].projectV2.field.options[1]

\* the option lookup taking the first option whatever its name
requiredOptionIdOf_first(options, statusFieldOverride) ==
  IF options = <<>> THEN Undefined ELSE options[1].id

\* .find(option => option.name === statusFieldOverride)?.id
requiredOptionIdOf(options, statusFieldOverride) ==
  LET hits == {i \in 1..Len(options) : options[i].name = statusFieldOverride}
  IN IF hits = {} THEN Undefined
     ELSE options[CHOOSE i \in hits : \A j \in hits : i <= j].id

\* updateCall with projectId and itemId exchanged
updateCall_swapped(projectId, itemId, fieldId, fieldOptionId) ==
  [op |-> "updateProjectV2ItemFieldValue",
   vars |-> [projectId |-> itemId, itemId |-> projectId,
             fieldId |-> fieldId, fieldOptionId |-> fieldOptionId]]

\* the variables of the update-field-value mutation
updateCall(projectId, itemId, fieldId, fieldOptionId) ==
  [op |-> "updateProjectV2ItemFieldValue",
   vars |-> [projectId |-> projectId, itemId |-> itemId,
             fieldId |-> fieldId, fieldOptionId |-> fieldOptionId]]

\* ------------------------------------------------------------ environment
S_acme   == <<"a","c","m","e">>
S_Acme   == <<"A","c","m","e">>
S_zed    == <<"z","e","d">>
S_bug    == <<"b","u","g">>
S_Bug    == <<"B","u","g">>
S_ux     == <<"u","x">>
S_dup    == <<"d","u","p">>
S_Done   == <<"D","o","n","e">>
S_done   == <<"d","o","n","e">>
S_token  == <<"t">>
S_comma  == <<",">>

\* all sequences over S of length at most n
SeqsUpTo(S, n) == UNION {[1..k -> S] : k \in 0..n}

\* A project URL put together from its parts; BaseUrl is
\* https://github.com/orgs/acme/projects/7
BaseUrl == [scheme |-> S_https, host |-> S_host, ownerType |-> S_orgs,
            owner |-> S_acme, projects |-> S_projects, number |-> <<"7">>,
            trailing |-> <<>>]

\* the URLs tried: BaseUrl and URLs that differ from it in one part
UrlPool ==
  {BaseUrl}
    \cup {[BaseUrl EXCEPT !.scheme = x] :
            x \in {<<>>, <<"h","t","t","p",":","/","/">>, <<"/">>}}
    \cup {[BaseUrl EXCEPT !.host = x] :
            x \in {<<"G","i","t","H","u","b",".","c","o","m","/">>,
                   <<"g","i","t","h","u","b","X","c","o","m","/">>}}
    \cup {[BaseUrl EXCEPT !.ownerType = x] :
            x \in {S_users, <<"t","e","a","m","s">>, <<"O","r","g","s">>}}
    \cup {[BaseUrl EXCEPT !.owner = x] : x \in {S_Acme, <<>>, <<"a","/","b">>}}
    \cup {[BaseUrl EXCEPT !.projects = x] :
            x \in {<<"/","p","r","o","j","e","c","t","/">>}}
    \cup {[BaseUrl EXCEPT !.number = x] : x \in {<<"1","2">>, <<>>, <<"x">>}}
    \cup {[BaseUrl EXCEPT !.trailing = x] : x \in {<<"/","v">>}}

renderUrl(p) ==
  p.scheme \o p.host \o p.ownerType \o S_slash \o p.owner \o p.projects
    \o p.number \o p.trailing

TeamsUrl == [BaseUrl EXCEPT !.ownerType = <<"t","e","a","m","s">>]

\* the triggering issue or pull request
issueObject(n, labels) ==
  [number |-> n, labels |-> labels,
   node_id |-> <<"N", DigitChars[n + 1]>>, html_url |-> <<"u", DigitChars[n + 1]>>]

repositoryOf(login) == <<[owner |-> [login |-> login]]>>

\* inputs and payloads of the runs that exercise the whole flow
RunInputs ==
  [projectUrl     : {renderUrl(p) : p \in UrlPool} \cup {<<>>},
   githubToken    : {S_token, <<>>},
   labeled        : {<<>>, S_bug},
   labelOperator  : {OpAnd, OpNot, <<>>},
   statusOverride : {<<>>, S_Done}]

RunPayloads ==
  LET labelSets == {<<>>, <<S_Bug>>}
      subjects  == {[issue |-> <<issueObject(1, l)>>, pull_request |-> <<>>] : l \in labelSets}
                   \cup {[issue |-> <<>>, pull_request |-> <<issueObject(2, l)>>] : l \in labelSets}
                   \cup {[issue |-> <<>>, pull_request |-> <<>>],
                         [issue |-> <<issueObject(1, <<>>)>>,
                          pull_request |-> <<issueObject(2, <<S_Bug>>)>>]}
      repos     == {<<>>} \cup {repositoryOf(o) : o \in {S_acme, S_Acme, S_zed}}
  IN {[issue |-> s.issue, pull_request |-> s.pull_request, repository |-> r] :
        s \in subjects, r \in repos}

\* inputs and payloads of the runs that exercise the label gate
GateEntries == {S_bug, <<" ">> \o S_Bug, S_ux, <<>>}
GateOperators == {OpAnd, <<" ","A","N","D"," ">>, OpNot, <<"N","o","t">>, <<"o","r">>, <<>>}
GateIssueLabels == {S_Bug, S_ux, S_dup}

GateInputs ==
  [projectUrl     : {renderUrl(BaseUrl), renderUrl(TeamsUrl)},
   githubToken    : {S_token},
   labeled        : {join(es, S_comma) : es \in SeqsUpTo(GateEntries, MaxLabeled)},
   labelOperator  : GateOperators,
   statusOverride : {<<>>}]

GatePayloads ==
  {[issue |-> <<issueObject(1, l)>>, pull_request |-> <<>>,
    repository |-> repositoryOf(S_acme)] : l \in SeqsUpTo(GateIssueLabels, MaxIssueLabels)}

\* arguments of direct calls of mustGetOwnerTypeQuery
OwnerTypeArgs == {S_orgs, S_users, <<"O","r","g","s">>, <<"t","e","a","m","s">>,
                  S_organization, S_user, <<>>, Undefined}

\* what the remote service may answer
ProjectIds == {<<"P","1">>, <<"P","2">>}
ItemIds    == {<<"I","1">>, <<"I","2">>}

projectNode(id) == <<[projectV2 |-> [id |-> id]]>>

IdResponses ==
  {[organization |-> <<>>, user |-> <<>>]}
    \cup {[organization |-> projectNode(id), user |-> <<>>] : id \in ProjectIds}
    \cup {[organization |-> <<>>, user |-> projectNode(id)] : id \in ProjectIds}

StatusOptions ==
  {[id |-> <<"O","1">>, name |-> S_done], [id |-> <<"O","2">>, name |-> S_Done],
   [id |-> <<"O","3">>, name |-> S_Done]}

fieldNode(options) ==
  <<[projectV2 |-> [field |-> [id |-> <<"F","1">>, options |-> options]]]>>

FieldNodes ==
  {<<>>, fieldNode(<<>>)} \cup {fieldNode(<<os>>) : os \in SeqsUpTo(StatusOptions, MaxOptions)}

\* the answers to the field query: under the root that was queried, or without it
FieldResponses(ownerTypeQuery) ==
  IF ownerTypeQuery = S_organization
  THEN {[organization |-> n, user |-> <<>>] : n \in FieldNodes}
  ELSE {[organization |-> <<>>, user |-> n] : n \in FieldNodes}

\* ------------------------------------------------------------------ state
VARIABLES
  env,       \* the invocation: the exported function called, inputs, payload
  pc,        \* where the run is
  error,     \* the error the run ended with, "none" when it raised none
  local,     \* the local constants and variables of the run
  calls,     \* the remote requests sent so far, in order
  returned,  \* how many of them have returned successfully
  outputs    \* the core.setOutput calls made so far, in order

vars == <<env, pc, error, local, calls, returned, outputs>>

Awaiting == {"awaitProjectId", "awaitAddItem", "awaitFieldId", "awaitUpdate"}

InitLocal ==
  [projectUrl |-> Undefined, labeled |-> <<>>, labelOperator |-> Undefined,
   issue |-> <<>>, issueLabels |-> <<>>, issueOwnerName |-> Undefined,
   urlMatch |-> NoMatch, projectOwnerName |-> Undefined, projectNumber |-> 0,
   ownerType |-> Undefined, ownerTypeQuery |-> Undefined,
   idResp |-> [organization |-> <<>>, user |-> <<>>],
   projectId |-> Undefined, contentId |-> Undefined,
   addRespItemId |-> Undefined, itemId |-> Undefined,
   statusFieldOverride |-> Undefined,
   statusFieldIdResp |-> [organization |-> <<>>, user |-> <<>>],
   statusFieldId |-> Undefined, requiredOptionId |-> Undefined]

NoInputs ==
  [projectUrl |-> <<>>, githubToken |-> <<>>, labeled |-> <<>>,
   labelOperator |-> <<>>, statusOverride |-> <<>>]

NoPayload == [issue |-> <<>>, pull_request |-> <<>>, repository |-> <<>>]

InitEnv ==
  \/ env \in [entry : {"addToProject"}, ownerTypeArg : {Undefined},
              inputs : RunInputs, payload : RunPayloads]
  \/ env \in [entry : {"addToProject"}, ownerTypeArg : {Undefined},
              inputs : GateInputs, payload : GatePayloads]
  \/ env \in [entry : {"mustGetOwnerTypeQuery"}, ownerTypeArg : OwnerTypeArgs,
              inputs : {NoInputs}, payload : {NoPayload}]

Init ==
  /\ InitEnv
  /\ pc = "start"
  /\ error = "none"
  /\ local = InitLocal
  /\ calls = <<>>
  /\ returned = 0
  /\ outputs = <<>>

\* throw new Error(...): the run ends with this error
Throw(e) ==
  /\ pc' = "failed"
  /\ error' = e

\* lines 77-93: the inputs and the payload are read
ReadInputs ==
  /\ pc = "start"
  /\ env.entry = "addToProject"
  /\ IF inputMissing(env.inputs.projectUrl) \/ inputMissing(env.inputs.githubToken)
     THEN /\ Throw("InputRequired")
          /\ UNCHANGED local
     ELSE LET iss == IF env.payload.issue # <<>> THEN env.payload.issue
                     ELSE env.payload.pull_request
          IN /\ local' = [local EXCEPT
                  !.projectUrl = getInput(env.inputs.projectUrl),
                  !.labeled = labeledOf(env.inputs.labeled),
                  !.labelOperator = labelOperatorOf(env.inputs.labelOperator),
                  !.issue = iss,
                  !.issueLabels = issueLabelsOf(iss),
                  !.issueOwnerName =
                     IF env.payload.repository = <<>> THEN Undefined
                     ELSE env.payload.repository[1].owner.login]
             /\ pc' = "labelGate"
             /\ UNCHANGED error
  /\ UNCHANGED <<env, calls, returned, outputs>>

\* LabelGate with the `return` of the skip branches left out
LabelGate_noReturn ==
  /\ pc = "labelGate"
  /\ pc' = "parseUrl"
  /\ UNCHANGED <<env, error, local, calls, returned, outputs>>

\* lines 95-111: the label gate
LabelGate ==
  /\ pc = "labelGate"
  /\ pc' = IF labelGateSkips(local.labelOperator, local.labeled, local.issueLabels)
           THEN "skipped" ELSE "parseUrl"
  /\ UNCHANGED <<env, error, local, calls, returned, outputs>>

\* lines 113-145: the project URL is parsed and the project-id query is sent
ParseUrl ==
  /\ pc = "parseUrl"
  /\ LET m == urlParse(local.projectUrl)
         q == mustGetOwnerTypeQuery(m.ownerType)
     IN IF ~m.matched
        THEN /\ Throw("InvalidProjectUrl")
             /\ UNCHANGED <<local, calls>>
        ELSE IF q = Undefined
        THEN /\ Throw("UnsupportedOwnerType")
             /\ local' = [local EXCEPT !.urlMatch = m,
                            !.projectOwnerName = m.ownerName,
                            !.projectNumber = parseInt(m.projectNumber),
                            !.ownerType = m.ownerType]
             /\ UNCHANGED calls
        ELSE /\ local' = [local EXCEPT !.urlMatch = m,
                            !.projectOwnerName = m.ownerName,
                            !.projectNumber = parseInt(m.projectNumber),
                            !.ownerType = m.ownerType,
                            !.ownerTypeQuery = q]
             /\ calls' = Append(calls,
                  [op |-> "getProject", root |-> q,
                   vars |-> [projectOwnerName |-> m.ownerName,
                             projectNumber |-> parseInt(m.projectNumber)]])
             /\ pc' = "awaitProjectId"
             /\ UNCHANGED error
  /\ UNCHANGED <<env, returned, outputs>>

\* RemoteFails with the rejected request sent once more
RemoteFails_retry ==
  /\ pc \in Awaiting
  /\ calls' = Append(calls, calls[Len(calls)])
  /\ UNCHANGED <<env, pc, error, local, returned, outputs>>

\* an awaited octokit.graphql call rejects: the error leaves addToProject
RemoteFails ==
  /\ pc \in Awaiting
  /\ Throw("RemoteError")
  /\ UNCHANGED <<env, local, calls, returned, outputs>>

\* lines 147-196: the project-id query returns and the add mutation is sent
ProjectIdReturns ==
  /\ pc = "awaitProjectId"
  /\ \E resp \in IdResponses :
       LET projectId == projectIdOf(resp, local.ownerTypeQuery)
           contentId == IF local.issue = <<>> THEN Undefined ELSE local.issue[1].node_id
           htmlUrl   == IF local.issue = <<>> THEN Undefined ELSE local.issue[1].html_url
       IN /\ local' = [local EXCEPT !.idResp = resp, !.projectId = projectId,
                         !.contentId = contentId]
          /\ calls' = Append(calls,
               addItemCall(ownerMatches(local.issueOwnerName, local.projectOwnerName),
                           projectId, contentId, htmlUrl))
  /\ returned' = returned + 1
  /\ pc' = "awaitAddItem"
  /\ UNCHANGED <<env, error, outputs>>

\* lines 176-177 / 198-199 and 202-207: the add mutation returns, the output
\* is set, and the project identity is validated
AddItemReturns ==
  /\ pc = "awaitAddItem"
  /\ \E id \in ItemIds :
       /\ local' = [local EXCEPT !.addRespItemId = id, !.itemId = id]
       /\ outputs' = Append(outputs, [name |-> "itemId", value |-> id])
  /\ returned' = returned + 1
  /\ IF local.projectId = Undefined THEN Throw("ProjectIdUndefined")
     ELSE IF local.projectOwnerName = Undefined THEN Throw("ProjectOwnerNameUndefined")
     ELSE pc' = "updateStatus" /\ UNCHANGED error
  /\ UNCHANGED <<env, calls>>

\* lines 240-276: updateStatusFieldValueOnCard up to the field query
UpdateStatusStart ==
  /\ pc = "updateStatus"
  /\ LET statusFieldOverride == getInput(env.inputs.statusOverride)
     IN /\ local' = [local EXCEPT !.statusFieldOverride = statusFieldOverride]
        /\ IF Len(statusFieldOverride) = 0
           THEN /\ pc' = "done"
                /\ UNCHANGED calls
           ELSE /\ calls' = Append(calls,
                     [op |-> "getStatusFieldId", root |-> local.ownerTypeQuery,
                      vars |-> [projectOwnerName |-> local.projectOwnerName,
                                projectNumber |-> local.projectNumber]])
                /\ pc' = "awaitFieldId"
  /\ UNCHANGED <<env, error, returned, outputs>>

\* lines 278-310: the field query returns; the option is looked up and the
\* update mutation is sent
FieldIdReturns ==
  /\ pc = "awaitFieldId"
  /\ \E resp \in FieldResponses(local.ownerTypeQuery) :
       LET statusFieldId == statusFieldIdOf(resp, local.ownerTypeQuery)
           requiredOptionId ==
             requiredOptionIdOf(optionsOf(resp, local.ownerTypeQuery),
                                local.statusFieldOverride)
       IN /\ local' = [local EXCEPT !.statusFieldIdResp = resp,
                         !.statusFieldId = statusFieldId,
                         !.requiredOptionId = requiredOptionId]
          /\ IF requiredOptionId = Undefined
             THEN /\ Throw("InvalidStatusOption")
                  /\ UNCHANGED calls
             ELSE /\ calls' = Append(calls,
                       updateCall(local.projectId, local.itemId, statusFieldId,
                                  requiredOptionId))
                  /\ pc' = "awaitUpdate"
                  /\ UNCHANGED error
  /\ returned' = returned + 1
  /\ UNCHANGED <<env, outputs>>

\* line 290: the update mutation returns and the run ends
UpdateReturns ==
  /\ pc = "awaitUpdate"
  /\ returned' = returned + 1
  /\ pc' = "done"
  /\ UNCHANGED <<env, error, local, calls, outputs>>

\* lines 211-219: mustGetOwnerTypeQuery called on its own
CallMustGetOwnerTypeQuery ==
  /\ pc = "start"
  /\ env.entry = "mustGetOwnerTypeQuery"
  /\ LET q == mustGetOwnerTypeQuery(env.ownerTypeArg)
     IN IF q = Undefined
        THEN /\ Throw("UnsupportedOwnerType")
             /\ UNCHANGED local
        ELSE /\ local' = [local EXCEPT !.ownerTypeQuery = q]
             /\ pc' = "done"
             /\ UNCHANGED error
  /\ UNCHANGED <<env, calls, returned, outputs>>

Next ==
  \/ ReadInputs
  \/ LabelGate
  \/ ParseUrl
  \/ RemoteFails
  \/ ProjectIdReturns
  \/ AddItemReturns
  \/ UpdateStatusStart
  \/ FieldIdReturns
  \/ UpdateReturns
  \/ CallMustGetOwnerTypeQuery

Spec == Init /\ [][Next]_vars

\* ----------------------------------------------------------------- claims
Mutations == {"addProjectV2ItemById", "addProjectV2DraftIssue",
              "updateProjectV2ItemFieldValue"}
AddMutations == {"addProjectV2ItemById", "addProjectV2DraftIssue"}

IsRun == env.entry = "addToProject"

\* the run has evaluated the label gate
PastGate == IsRun /\ pc \notin {"start", "labelGate"} /\ error # "InputRequired"

\* the run has gone through the URL resolver
PastParse == PastGate /\ pc \notin {"skipped", "parseUrl"}

Configured == Range(local.labeled)
OnIssue == Range(local.issueLabels)

\* C1: whenever the add-item-by-id, the add-draft-issue or the
\* update-field-value mutation is issued, the project-id query has returned
\* and the projectId taken from its response is defined.
C1_MutationsHaveProjectId ==
  \A i \in 1..Len(calls) :
    calls[i].op \in Mutations =>
      returned >= 1 /\ calls[i].vars.projectId # Undefined

\* C2: with label-operator `and`, the label gate proceeds if and only if
\* every configured label (trimmed, lower-cased, empty entries removed) is
\* in the issue's lower-cased label set; an empty configured list proceeds.
C2_AndGate ==
  (PastGate /\ local.labelOperator = OpAnd) =>
    /\ (pc # "skipped") <=> (Configured \subseteq OnIssue)
    /\ (Configured = {}) => pc # "skipped"

C2_Witness ==
  /\ PastGate /\ local.labelOperator = OpAnd /\ pc = "skipped"
  /\ Configured \cap OnIssue # {}
  /\ Configured \ OnIssue # {}

\* C3: with label-operator `not`, the label gate skips if and only if the
\* configured list is non-empty and at least one configured label is on the
\* issue; otherwise it proceeds.
C3_NotGate ==
  (PastGate /\ local.labelOperator = OpNot) =>
    ((pc = "skipped") <=> (local.labeled # <<>> /\ Configured \cap OnIssue # {}))

C3_Witness ==
  /\ PastGate /\ local.labelOperator = OpNot /\ pc = "skipped"
  /\ Configured \ OnIssue # {}

\* two strings that differ at most in the case of their letters
sameIgnoringCase(a, b) ==
  /\ Len(a) = Len(b)
  /\ \A k \in 1..Len(a) :
       \/ a[k] = b[k]
       \/ \E n \in 1..Len(UpperChars) :
            {a[k], b[k]} = {UpperChars[n], LowerChars[n]}

\* the entries of the `labeled` input as written, without surrounding blanks
WrittenEntries ==
  LET parts == split(env.inputs.labeled, ",")
  IN {trim(parts[i]) : i \in 1..Len(parts)} \ {<<>>}

\* the issue's label names as the payload gives them
WrittenIssueLabels ==
  LET iss == IF env.payload.issue # <<>> THEN env.payload.issue
             ELSE env.payload.pull_request
  IN IF iss = <<>> THEN {} ELSE Range(iss[1].labels)

\* C4: with any label-operator other than `and` or `not` (unset included),
\* the label gate proceeds when the configured list is empty, and otherwise
\* proceeds if and only if at least one configured label is on the issue,
\* the labels compared without regard to case.
C4_DefaultGate ==
  (PastGate /\ local.labelOperator \notin {OpAnd, OpNot}) =>
    /\ (local.labeled = <<>>) => pc # "skipped"
    /\ (local.labeled # <<>>) =>
         ((pc # "skipped") <=> (Configured \cap OnIssue # {}))
    /\ (pc # "skipped") <=>
         \/ WrittenEntries = {}
         \/ \E e \in WrittenEntries : \E l \in WrittenIssueLabels :
              sameIgnoringCase(e, l)

C4_Witness ==
  /\ PastGate /\ local.labelOperator \notin {OpAnd, OpNot} /\ pc # "skipped"
  /\ \E e \in WrittenEntries : \E l \in WrittenIssueLabels :
       sameIgnoringCase(e, l) /\ e # l
  /\ Configured \ OnIssue # {}

\* the label gate does not match, stated on the two label sets
GateMismatch ==
  IF local.labelOperator = OpAnd THEN ~(Configured \subseteq OnIssue)
  ELSE IF local.labelOperator = OpNot THEN Configured \cap OnIssue # {}
  ELSE Configured # {} /\ Configured \cap OnIssue = {}

\* C5: when the label gate does not match, the run ends successfully with
\* no side effects: no remote query or mutation is issued, the project URL
\* is not parsed (a malformed URL raises no error), and itemId is never set.
C5_SkipIsClean ==
  (PastGate /\ GateMismatch) =>
    /\ pc = "skipped"
    /\ error = "none"
    /\ calls = <<>> /\ returned = 0
    /\ outputs = <<>>
    /\ local.urlMatch = NoMatch /\ local.projectOwnerName = Undefined
    /\ ~ENABLED Next

C5_Witness ==
  /\ PastGate /\ GateMismatch /\ pc = "skipped"
  /\ ~urlParse(local.projectUrl).matched

\* the parts of the project URL the run was given
GivenUrlParts == {p \in UrlPool : renderUrl(p) = env.inputs.projectUrl}

\* the parts spell [https://]github.com/(orgs|users)/<owner>/projects/<number>
WellFormedUrl(p) ==
  /\ p.scheme \in {<<>>, S_https}
  /\ p.host = S_host
  /\ p.ownerType \in {S_orgs, S_users}
  /\ p.owner # <<>> /\ "/" \notin Range(p.owner)
  /\ p.projects = S_projects
  /\ p.number # <<>> /\ Range(p.number) \subseteq Range(DigitChars)

\* the login of the repository owner in the payload
RepositoryOwner ==
  IF env.payload.repository = <<>> THEN Undefined
  ELSE env.payload.repository[1].owner.login

\* the issue, or else the pull request, of the payload
Subject ==
  IF env.payload.issue # <<>> THEN env.payload.issue ELSE env.payload.pull_request

AddCalls == {i \in 1..Len(calls) : calls[i].op \in AddMutations}

\* C6: in every run that passes the label gate, URL parsing and the
\* project-id query, exactly one add mutation is issued: add-item-by-id with
\* contentId = the issue/PR node id if and only if the repository owner login
\* equals the project owner name of the URL exactly (case-sensitively), and
\* otherwise add-draft-issue with title = the issue/PR html URL.
C6_AttachOrDraft ==
  (IsRun /\ returned >= 1) =>
    /\ Cardinality(AddCalls) = 1
    /\ \A i \in AddCalls : \A p \in GivenUrlParts :
         IF RepositoryOwner = p.owner
         THEN /\ calls[i].op = "addProjectV2ItemById"
              /\ calls[i].vars.contentId =
                   (IF Subject = <<>> THEN Undefined ELSE Subject[1].node_id)
         ELSE /\ calls[i].op = "addProjectV2DraftIssue"
              /\ calls[i].vars.title =
                   (IF Subject = <<>> THEN Undefined ELSE Subject[1].html_url)

C6_Witness ==
  /\ IsRun /\ returned >= 1
  /\ \E p \in GivenUrlParts :
       /\ RepositoryOwner # p.owner
       /\ sameIgnoringCase(RepositoryOwner, p.owner)
  /\ \E i \in AddCalls :
       /\ calls[i].op = "addProjectV2DraftIssue"
       /\ calls[i].vars.title = <<"u", "1">>

\* the options of the "Status" field in the field-query response
ReturnedOptions ==
  LET nodes == local.statusFieldIdResp.organization \o local.statusFieldIdResp.user
  IN IF nodes = <<>> THEN <<>>
     ELSE IF nodes[1].projectV2.field.options = <<>> THEN <<>>
     ELSE nodes[1].projectV2.field.options[1]

MatchingOptions ==
  {i \in 1..Len(ReturnedOptions) :
     ReturnedOptions[i].name = env.inputs.statusOverride}

UpdateCalls == {i \in 1..Len(calls) : calls[i].op = "updateProjectV2ItemFieldValue"}
FieldQueries == {i \in 1..Len(calls) : calls[i].op = "getStatusFieldId"}

\* updateStatusFieldValueOnCard has been entered and has got as far as it goes
\* without waiting for the remote service
StatusStarted ==
  IsRun /\ returned >= 2 /\ pc # "updateStatus"
    /\ error \notin {"ProjectIdUndefined", "ProjectOwnerNameUndefined"}

\* the field query has returned
FieldReturned == IsRun /\ returned >= 3

\* C7: the update-field-value mutation is issued if and only if the
\* status-override is non-empty and the "Status" field query returned an
\* option whose name equals it exactly, and then with that option's id; with
\* a non-empty override and no such option the run fails and no update is
\* issued; with an empty override neither the field query nor the update
\* mutation is issued.
C7_StatusOverride ==
  /\ (UpdateCalls # {}) <=>
       (IsRun /\ env.inputs.statusOverride # <<>> /\ FieldReturned
          /\ MatchingOptions # {})
  /\ \A i \in UpdateCalls :
       /\ \E k \in MatchingOptions :
            /\ calls[i].vars.fieldOptionId = ReturnedOptions[k].id
            /\ \A j \in MatchingOptions : k <= j
       /\ Cardinality(UpdateCalls) = 1
  /\ (FieldReturned /\ MatchingOptions = {}) =>
       (pc = "failed" /\ error = "InvalidStatusOption" /\ UpdateCalls = {})
  /\ (StatusStarted /\ env.inputs.statusOverride = <<>>) =>
       (pc = "done" /\ error = "none" /\ FieldQueries = {} /\ UpdateCalls = {})
  /\ (StatusStarted /\ env.inputs.statusOverride # <<>>) => FieldQueries # {}

C7_Witness ==
  /\ UpdateCalls # {}
  /\ Len(ReturnedOptions) >= 2
  /\ 1 \notin MatchingOptions
  /\ \E o \in Range(ReturnedOptions) :
       o.name # env.inputs.statusOverride
         /\ sameIgnoringCase(o.name, env.inputs.statusOverride)

\* the query root that goes with the owner-type segment of a well-formed URL
ExpectedRoot(p) == IF p.ownerType = S_orgs THEN S_organization ELSE S_user

\* the number a well-formed URL of UrlPool names
ExpectedNumber(p) == IF p.number = <<"7">> THEN 7 ELSE 12

\* C8: for a run that passes the label gate, a project URL that does not
\* match [https://]github.com/(orgs|users)/<owner>/projects/<number> at its
\* start makes the run fail before any remote query or mutation and without
\* setting itemId; a URL that matches maps `orgs` to the query root
\* `organization` and `users` to `user`; and mustGetOwnerTypeQuery raises a
\* fatal error for every other token, undefined included.
C8_UrlResolver ==
  /\ PastParse =>
       \A p \in GivenUrlParts :
         IF WellFormedUrl(p)
         THEN /\ error \notin {"InvalidProjectUrl", "UnsupportedOwnerType"}
              /\ Len(calls) >= 1
              /\ calls[1] = [op |-> "getProject", root |-> ExpectedRoot(p),
                             vars |-> [projectOwnerName |-> p.owner,
                                       projectNumber |-> ExpectedNumber(p)]]
         ELSE /\ pc = "failed" /\ error = "InvalidProjectUrl"
              /\ calls = <<>> /\ returned = 0 /\ outputs = <<>>
              /\ ~ENABLED Next
  /\ (env.entry = "mustGetOwnerTypeQuery" /\ pc # "start") =>
       IF env.ownerTypeArg = S_orgs
       THEN pc = "done" /\ error = "none" /\ local.ownerTypeQuery = S_organization
       ELSE IF env.ownerTypeArg = S_users
       THEN pc = "done" /\ error = "none" /\ local.ownerTypeQuery = S_user
       ELSE pc = "failed" /\ error = "UnsupportedOwnerType"

C8_Witness ==
  /\ PastParse /\ pc = "failed" /\ error = "InvalidProjectUrl"
  /\ env.inputs.projectUrl = renderUrl([BaseUrl EXCEPT !.scheme = <<"/">>])

\* the project id in the project-id response, under either root
ReturnedProjectIds ==
  {n.projectV2.id : n \in Range(local.idResp.organization \o local.idResp.user)}

\* C9: the itemId output is set at most once per run, only after an add
\* mutation has returned successfully, with the item identifier that mutation
\* returned; an update-field-value mutation carries that same itemId and the
\* projectId the project-id query of the run resolved.
C9_ItemIdOutput ==
  /\ Len(outputs) <= 1
  /\ outputs # <<>> =>
       /\ returned >= 2 /\ AddCalls # {}
       /\ outputs[1] = [name |-> "itemId", value |-> local.addRespItemId]
       /\ local.addRespItemId \in ItemIds
  /\ (IsRun /\ returned >= 2) => outputs # <<>>
  /\ \A i \in UpdateCalls :
       /\ outputs # <<>>
       /\ calls[i].vars.itemId = outputs[1].value
       /\ calls[i].vars.projectId \in ReturnedProjectIds
       /\ calls[i].vars.projectId = calls[CHOOSE k \in AddCalls : TRUE].vars.projectId

C9_Witness ==
  /\ UpdateCalls # {}
  /\ outputs = <<[name |-> "itemId", value |-> <<"I", "2">>]>>
  /\ \A i \in UpdateCalls : calls[i].vars.projectId = <<"P", "2">>

\* the operations a request in position i of a run may be
Stage(i) ==
  IF i = 1 THEN {"getProject"}
  ELSE IF i = 2 THEN AddMutations
  ELSE IF i = 3 THEN {"getStatusFieldId"}
  ELSE IF i = 4 THEN {"updateProjectV2ItemFieldValue"}
  ELSE {}

\* C10: the remote calls of a run are sequential and never retried: the
\* project-id query, the add mutation, the Status field query and the
\* update-field-value mutation are each issued at most once, in that order,
\* each only after the one before returned successfully; once a remote call
\* fails the run ends with an error and issues no further call, and an item
\* already added (itemId set) is not rolled back when the status update fails.
C10_SequentialNoRetry ==
  /\ \A i \in 1..Len(calls) : calls[i].op \in Stage(i)
  /\ returned <= Len(calls) /\ Len(calls) <= returned + 1
  /\ (pc \in Awaiting \/ error = "RemoteError") <=> (Len(calls) = returned + 1)
  /\ (pc = "failed") => ~ENABLED Next
  /\ (error = "RemoteError") => (pc = "failed" /\ Len(calls) = returned + 1)
  /\ (pc = "failed" /\ returned >= 2) =>
       (outputs # <<>> /\ outputs[1].value = local.addRespItemId)

C10_Witness ==
  /\ pc = "failed" /\ error = "RemoteError"
  /\ Len(calls) = 4 /\ returned = 3
  /\ outputs # <<>>

====
